---- MODULE Spec2Model ----
(***************************************************************************)
(* Signed S3 multi-part upload of backend/aps_service.py:                  *)
(* upload_file_signed_s3 with its helpers _get_access_token,               *)
(* _get_signed_upload_urls and _complete_signed_upload.  The remote        *)
(* services (token endpoint, signing endpoint, part targets, completion    *)
(* endpoint) are the environment: every answer they can give is drawn      *)
(* nondeterministically.                                                   *)
(***************************************************************************)
EXTENDS Integers, Sequences, FiniteSets, TLC

\* ---------------------------------------------------------------- bounds
\* Largest number of whole MIN_PART_SIZE blocks in a modelled file.
MaxFullParts == 2
\* Longest ETag header value the store returns.
MaxEtagLen == 3

\* ------------------------------------------------------ program constants
MIN_PART_SIZE == 5 * 1024 * 1024

\* requests.put success set, line 176; completion success set, line 128.
PutSuccessStatuses == {200, 201}
CompleteSuccessStatuses == {200, 201}
\* signing endpoint success status, line 105.
SignSuccessStatus == 200

\* ------------------------------------------------------------ environment
\* The double-quote character and one ordinary character of an ETag.
Quote == "q"
Chars == {Quote, "a"}

\* Header values a part target may answer with (strings as sequences).
Headers == UNION {[1..n -> Chars] : n \in 0..MaxEtagLen}

\* Sizes of the local file: empty, one byte, and around each multiple of
\* MIN_PART_SIZE.
FileSizes ==
    {0, 1} \cup {k * MIN_PART_SIZE + d : k \in 1..MaxFullParts, d \in {-1, 0, 1}}

\* Statuses a service answers with when it refuses.
ErrorStatuses == {403}

NoResp == [exc |-> FALSE, status |-> 0, hasEtag |-> FALSE, etag |-> <<>>]
TransportError == [exc |-> TRUE, status |-> 0, hasEtag |-> FALSE, etag |-> <<>>]

\* Everything requests.put(urls[i], ...) can produce: an exception
\* (connection error, timeout), or a response with a status and possibly an
\* ETag header.
PutResponses ==
    {TransportError}
    \cup {[exc |-> FALSE, status |-> s, hasEtag |-> FALSE, etag |-> <<>>] :
            s \in PutSuccessStatuses \cup ErrorStatuses}
    \cup {[exc |-> FALSE, status |-> s, hasEtag |-> TRUE, etag |-> h] :
            s \in PutSuccessStatuses \cup ErrorStatuses, h \in Headers}

\* The store's view of a part upload: it was received and a token returned.
PutAnswered(resp) ==
    /\ ~resp.exc
    /\ resp.status \in PutSuccessStatuses
    /\ resp.hasEtag
    /\ resp.etag # <<>>

\* Signed URLs are opaque; two numberings keep them apart from list indices.
UrlLists(n) ==
    {[k \in 1..n |-> 100 + k], [k \in 1..n |-> 200 + (n + 1 - k)]}

\* Everything the signing endpoint can produce for a request of n parts.
\* uploadKey "" stands for a missing or empty key (both falsy at line 163).
SignResponses(n) ==
    {[exc |-> TRUE, status |-> 0, uploadKey |-> "", urls |-> <<>>]}
    \cup {[exc |-> FALSE, status |-> s, uploadKey |-> "", urls |-> <<>>] :
            s \in ErrorStatuses}
    \cup {[exc |-> FALSE, status |-> SignSuccessStatus, uploadKey |-> key, urls |-> u] :
            key \in {"", "K"},
            u \in UNION {UrlLists(m) : m \in {n - 1, n, n + 1}}}

\* Everything the completion endpoint can produce; body is resp.text:
\* empty, JSON, or text that is not JSON.
CompleteResponses ==
    {[exc |-> TRUE, status |-> 0, body |-> "empty"]}
    \cup {[exc |-> FALSE, status |-> s, body |-> b] :
            s \in CompleteSuccessStatuses \cup ErrorStatuses,
            b \in {"empty", "json", "text"}}

\* ------------------------------------------------------- pure computations
\* math.ceil(a / b) for positive b (exact below 2^53).
\* Faulty variant: floor plus one, one part too many on exact multiples.
CeilDivFloorPlusOne(a, b) == (a \div b) + 1
CeilDiv(a, b) == (a + b - 1) \div b

\* lines 152-157
TotalParts(size) ==
    IF size <= MIN_PART_SIZE THEN 1 ELSE CeilDiv(size, MIN_PART_SIZE)
PartSize(size) ==
    IF size <= MIN_PART_SIZE THEN size ELSE MIN_PART_SIZE

\* line 163: the response is usable.
\* Faulty variant: the URL count is not compared with the part count.
SignedOkKeyOnly(key, u, parts) == key # ""
SignedOk(key, u, parts) == key # "" /\ Len(u) = parts

\* line 170
\* Faulty variant: the 0-based loop index used as the part number.
PartNumberZeroBased(idx) == idx
PartNumber(idx) == idx + 1

\* line 171: f.read(n) at cursor p of a file of the given size returns
\* this many bytes.
ReadLen(size, p, n) ==
    IF size - p < n THEN size - p ELSE n

\* line 175: urls[i] of the 0-based Python list.
\* Faulty variant: every part sent to the first URL.
UrlForFirst(u, idx) == u[1]
UrlFor(u, idx) == u[idx + 1]

\* line 176
\* Faulty variant: the response status is not checked.
PutStatusOkAlways(status) == TRUE
PutStatusOk(status) == status \in PutSuccessStatuses

\* line 181-182: headers.get("ETag") or headers.get("etag"), then "not etag".
EtagPresent(resp) == resp.hasEtag /\ resp.etag # <<>>

\* line 185: str.strip('"') removes every leading and trailing quote.
RECURSIVE LStrip(_)
LStrip(s) == IF s # <<>> /\ Head(s) = Quote THEN LStrip(Tail(s)) ELSE s
RECURSIVE RStrip(_)
RStrip(s) ==
    IF s # <<>> /\ s[Len(s)] = Quote THEN RStrip(SubSeq(s, 1, Len(s) - 1)) ELSE s
\* Faulty variant: lstrip instead of strip.
StripLeadingOnly(s) == LStrip(s)
Strip(s) == RStrip(LStrip(s))

\* The exceptions the module raises, by what their message carries.
NoPayload == [uploadKey |-> "", parts |-> <<>>]
NoError == [msg |-> "", part |-> 0, status |-> 0, payload |-> NoPayload]
Err(msg, part, status) ==
    [msg |-> msg, part |-> part, status |-> status, payload |-> NoPayload]

\* One call to the store, as the store sees it.
Call(op, n, url, offset, len, ok, payload) ==
    [op |-> op, n |-> n, url |-> url, offset |-> offset, len |-> len,
     ok |-> ok, payload |-> payload]

\* ------------------------------------------------------------------ state
VARIABLES
    pc,             \* position of upload_file_signed_s3
    APS_BUCKET_KEY, \* whether the environment variable is set
    file,           \* the local file: [exists, size]
    file_size, total_parts, part_size,
    upload_key, urls,
    i,              \* loop index of "for i in range(total_parts)"
    pos,            \* read cursor of f
    put_resp,       \* last response of requests.put
    parts_payload,
    result,         \* value returned to the caller
    error,          \* exception raised to the caller
    calls,          \* calls made to the store, in order
    auth_calls      \* calls made to the token endpoint

vars == <<pc, APS_BUCKET_KEY, file, file_size, total_parts, part_size,
          upload_key, urls, i, pos, put_resp, parts_payload, result, error,
          calls, auth_calls>>

Init ==
    /\ pc = "Planning"
    /\ APS_BUCKET_KEY \in BOOLEAN
    /\ file \in [exists : BOOLEAN, size : FileSizes]
    /\ file_size = 0
    /\ total_parts = 0
    /\ part_size = 0
    /\ upload_key = ""
    /\ urls = <<>>
    /\ i = 0
    /\ pos = 0
    /\ put_resp = NoResp
    /\ parts_payload = <<>>
    /\ result = ""
    /\ error = NoError
    /\ calls = <<>>
    /\ auth_calls = 0

Raise(e) ==
    /\ pc' = "Failed"
    /\ error' = e

\* lines 143-157
Plan ==
    /\ pc = "Planning"
    /\ IF ~APS_BUCKET_KEY
         THEN /\ Raise(Err("APS_BUCKET_KEY is not set in .env", 0, 0))
              /\ UNCHANGED <<file_size, total_parts, part_size>>
         ELSE IF ~file.exists
         THEN /\ Raise(Err("File not found", 0, 0))
              /\ UNCHANGED <<file_size, total_parts, part_size>>
         ELSE /\ file_size' = file.size
              /\ total_parts' = TotalParts(file.size)
              /\ part_size' = PartSize(file.size)
              /\ pc' = "RequestingTargets"
              /\ UNCHANGED error
    /\ UNCHANGED <<APS_BUCKET_KEY, file, upload_key, urls, i, pos, put_resp,
                   parts_payload, result, calls, auth_calls>>

\* lines 159-164 with _get_signed_upload_urls (89-108): the token request
\* fails and no request reaches the signing endpoint.
GetSignedUploadUrlsAuthFails ==
    /\ pc = "RequestingTargets"
    /\ auth_calls' = auth_calls + 1
    /\ \E s \in ErrorStatuses : Raise(Err("APS authentication failed", 0, s))
    /\ UNCHANGED <<APS_BUCKET_KEY, file, file_size, total_parts, part_size,
                   upload_key, urls, i, pos, put_resp, parts_payload, result,
                   calls>>

\* lines 159-164 with _get_signed_upload_urls (89-108)
GetSignedUploadUrls ==
    /\ pc = "RequestingTargets"
    /\ auth_calls' = auth_calls + 1
    /\ \E resp \in SignResponses(total_parts) :
         /\ calls' = Append(calls,
                Call("sign", total_parts, 0, 0, 0,
                     ~resp.exc /\ resp.status = SignSuccessStatus, NoPayload))
         /\ IF resp.exc
              THEN /\ Raise(Err("requests exception", 0, 0))
                   /\ UNCHANGED <<upload_key, urls>>
              ELSE IF resp.status # SignSuccessStatus
              THEN /\ Raise(Err("Get signed upload URLs failed", 0, resp.status))
                   /\ UNCHANGED <<upload_key, urls>>
              ELSE /\ upload_key' = resp.uploadKey
                   /\ urls' = resp.urls
                   /\ IF ~SignedOk(resp.uploadKey, resp.urls, total_parts)
                        THEN Raise(Err("Unexpected signed upload response", 0, 0))
                        ELSE pc' = "UploadingParts" /\ UNCHANGED error
    /\ UNCHANGED <<APS_BUCKET_KEY, file, file_size, total_parts, part_size,
                   i, pos, put_resp, parts_payload, result>>

\* lines 169-186: one iteration of the loop; leaving the loop after the
\* last part leads to the completion call of line 188.
UploadPart ==
    /\ pc = "UploadingParts"
    /\ i < total_parts
    /\ LET part_number == PartNumber(i)
           chunk == ReadLen(file.size, pos, part_size)
       IN  IF chunk = 0
             THEN /\ Raise(Err("Unexpected EOF while reading part", part_number, 0))
                  /\ UNCHANGED <<i, pos, put_resp, parts_payload, calls>>
             ELSE \E resp \in PutResponses :
                  /\ pos' = pos + chunk
                  /\ calls' = Append(calls,
                         Call("put", part_number, UrlFor(urls, i), pos, chunk,
                              PutAnswered(resp), NoPayload))
                  /\ IF resp.exc
                       THEN /\ Raise(Err("requests exception", 0, 0))
                            /\ UNCHANGED <<i, put_resp, parts_payload>>
                       ELSE /\ put_resp' = resp
                            /\ IF ~PutStatusOk(resp.status)
                                 THEN /\ Raise(Err("S3 PUT failed for part",
                                                   part_number, resp.status))
                                      /\ UNCHANGED <<i, parts_payload>>
                                 ELSE IF ~EtagPresent(resp)
                                 THEN /\ Raise(Err("Missing ETag for part",
                                                   part_number, 0))
                                      /\ UNCHANGED <<i, parts_payload>>
                                 ELSE /\ parts_payload' = Append(parts_payload,
                                            [part |-> part_number,
                                             etag |-> Strip(resp.etag)])
                                      /\ i' = i + 1
                                      /\ pc' = IF i + 1 < total_parts
                                                 THEN "UploadingParts"
                                                 ELSE "Finalizing"
                                      /\ UNCHANGED error
    /\ UNCHANGED <<APS_BUCKET_KEY, file, file_size, total_parts, part_size,
                   upload_key, urls, result, auth_calls>>

\* line 188 with _complete_signed_upload (111-136): the token request fails.
CompleteSignedUploadAuthFails ==
    /\ pc = "Finalizing"
    /\ auth_calls' = auth_calls + 1
    /\ \E s \in ErrorStatuses : Raise(Err("APS authentication failed", 0, s))
    /\ UNCHANGED <<APS_BUCKET_KEY, file, file_size, total_parts, part_size,
                   upload_key, urls, i, pos, put_resp, parts_payload, result,
                   calls>>

\* line 188 with _complete_signed_upload (111-136)
CompleteSignedUpload ==
    /\ pc = "Finalizing"
    /\ auth_calls' = auth_calls + 1
    /\ \E resp \in CompleteResponses :
         /\ calls' = Append(calls,
                Call("complete", 0, 0, 0, 0,
                     ~resp.exc /\ resp.status \in CompleteSuccessStatuses,
                     [uploadKey |-> upload_key, parts |-> parts_payload]))
         /\ IF resp.exc
              THEN /\ Raise(Err("requests exception", 0, 0))
                   /\ UNCHANGED result
              ELSE IF resp.status \in CompleteSuccessStatuses
              THEN /\ pc' = "Done"
                   /\ result' = CASE resp.body = "empty" -> "{}"
                                  [] resp.body = "json" -> "json"
                                  [] OTHER -> "raw_text"
                   /\ UNCHANGED error
              ELSE /\ Raise(Err("Complete signed upload failed", 0, resp.status))
                   /\ UNCHANGED result
    /\ UNCHANGED <<APS_BUCKET_KEY, file, file_size, total_parts, part_size,
                   upload_key, urls, i, pos, put_resp, parts_payload>>

Next ==
    \/ Plan
    \/ GetSignedUploadUrlsAuthFails
    \/ GetSignedUploadUrls
    \/ UploadPart
    \/ CompleteSignedUploadAuthFails
    \/ CompleteSignedUpload

Spec == Init /\ [][Next]_vars

\* ------------------------------------------------------------- properties
Min(a, b) == IF a < b THEN a ELSE b

RECURSIVE SumLens(_)
SumLens(cs) == IF cs = <<>> THEN 0 ELSE Head(cs).len + SumLens(Tail(cs))

\* t is h without its leading and trailing runs of quote characters.
IsUnquotedOf(t, h) ==
    \E lo \in 1..(Len(h) + 1), hi \in 0..Len(h) :
        /\ t = SubSeq(h, lo, hi)
        /\ \A k \in 1..(lo - 1) : k <= Len(h) => h[k] = Quote
        /\ \A k \in (hi + 1)..Len(h) : h[k] = Quote
        /\ t # <<>> => (t[1] # Quote /\ t[Len(t)] # Quote)

\* h is wrapped in literal double quotes.
Wrapped(h) == Len(h) >= 2 /\ h[1] = Quote /\ h[Len(h)] = Quote

LastCall == calls[Len(calls)]

\* C1: whenever the completion endpoint is called, the parts payload holds
\* exactly the part numbers 1..total_parts, each once, in ascending order.
C1_CompletionPartsExact ==
    \A j \in DOMAIN calls :
        calls[j].op = "complete" =>
            LET p == calls[j].payload.parts
            IN  /\ Len(p) = total_parts
                /\ \A k \in DOMAIN p : p[k].part = k

C1_Witness ==
    /\ total_parts = 3
    /\ calls # <<>>
    /\ LastCall.op = "complete"
    /\ Len(LastCall.payload.parts) = 3

\* C2: a part upload that fails (exception, non-success status, no ETag) is
\* the last call of the run: no later PUT, no completion call, and the run
\* is in the Failed state.
C2_FailedPartStopsRun ==
    \A j \in DOMAIN calls :
        (calls[j].op = "put" /\ ~calls[j].ok) =>
            (j = Len(calls) /\ pc = "Failed")

C2_Witness ==
    /\ pc = "Failed"
    /\ total_parts = 3
    /\ Len(calls) = 3
    /\ LastCall.op = "put" /\ LastCall.n = 2 /\ ~LastCall.ok

\* C3: when the signing endpoint answers successfully with a number of URLs
\* different from the requested part count, the run fails with the
\* unexpected-response error and makes no further call (no PUT, no
\* completion).
C3_UrlCountMismatchFails ==
    (/\ calls # <<>>
     /\ calls[1].op = "sign" /\ calls[1].ok
     /\ Len(urls) # total_parts)
    => (/\ pc = "Failed"
        /\ Len(calls) = 1
        /\ error.msg = "Unexpected signed upload response")

C3_Witness ==
    /\ pc = "Failed"
    /\ total_parts = 3
    /\ calls # <<>> /\ calls[1].ok
    /\ upload_key # ""
    /\ Len(urls) = total_parts - 1

\* C4: for a non-empty file the part count is ceil(file_size /
\* MIN_PART_SIZE), every part but the last has MIN_PART_SIZE bytes, the last
\* has between 1 and MIN_PART_SIZE bytes, and once the last part was read
\* the part sizes add up to file_size.
C4_PlanAndChunks ==
    (total_parts > 0 /\ file_size > 0) =>
        /\ (total_parts - 1) * MIN_PART_SIZE < file_size
        /\ file_size <= total_parts * MIN_PART_SIZE
        /\ \A j \in DOMAIN calls :
             calls[j].op = "put" =>
                /\ calls[j].n < total_parts => calls[j].len = MIN_PART_SIZE
                /\ calls[j].n = total_parts =>
                      (0 < calls[j].len /\ calls[j].len <= MIN_PART_SIZE)
        /\ (\E j \in DOMAIN calls : calls[j].op = "put" /\ calls[j].n = total_parts)
              => SumLens(calls) = file_size

C4_Witness ==
    /\ pc = "Done"
    /\ total_parts = 3
    /\ file_size = 2 * MIN_PART_SIZE + 1

\* C5: an empty file fails during planning: once planning is over the run
\* is Failed and no request was sent to the token or signing endpoint.
C5_EmptyFailsBeforeRequest ==
    (APS_BUCKET_KEY /\ file.exists /\ file.size = 0 /\ pc # "Planning")
    => (pc = "Failed" /\ calls = <<>> /\ auth_calls = 0)

\* C6: when a part upload fails, whatever the failure, the error raised
\* names the part number of that part.
C6_PartFailureNamesPart ==
    (pc = "Failed" /\ calls # <<>> /\ LastCall.op = "put" /\ ~LastCall.ok)
    => error.part = LastCall.n

\* C7: when the completion endpoint answers with a non-success status, the
\* error raised carries the completion payload that was sent.
C7_CompletionFailureCarriesPayload ==
    (/\ pc = "Failed"
     /\ calls # <<>>
     /\ LastCall.op = "complete"
     /\ error.msg = "Complete signed upload failed")
    => error.payload = LastCall.payload

\* C8: when the last answered PUT succeeded with an ETag wrapped in double
\* quotes, the newest payload entry pairs the number of that part with the
\* header value without its surrounding quotes.
C8_QuotedEtagStoredUnquoted ==
    (/\ put_resp.status \in {200, 201}
     /\ put_resp.hasEtag
     /\ Wrapped(put_resp.etag))
    => LET answered == {j \in DOMAIN calls : calls[j].op = "put" /\ calls[j].ok}
       IN  /\ parts_payload # <<>>
           /\ answered # {}
           /\ LET j == CHOOSE x \in answered : \A y \in answered : y <= x
                  entry == parts_payload[Len(parts_payload)]
              IN  /\ entry.part = calls[j].n
                  /\ IsUnquotedOf(entry.etag, put_resp.etag)

C8_Witness ==
    /\ put_resp.status = 200
    /\ put_resp.etag = <<Quote, "a", Quote>>
    /\ Len(parts_payload) = 2
    /\ parts_payload[2] = [part |-> 2, etag |-> <<"a">>]

\* C9: the calls made to the store are a prefix of: one signing request for
\* total_parts URLs, the PUT of each part's byte range to the URL of the
\* same rank, in ascending order, then one completion request; every call
\* but the last one succeeded, so nothing is repeated.
C9_CallSequence ==
    /\ calls # <<>> => Len(calls) <= total_parts + 2
    /\ \A j \in DOMAIN calls :
         /\ j < Len(calls) => calls[j].ok
         /\ j = 1 => (calls[j].op = "sign" /\ calls[j].n = total_parts)
         /\ (1 < j /\ j <= total_parts + 1) =>
               /\ calls[j].op = "put"
               /\ calls[j].n = j - 1
               /\ j - 1 <= Len(urls)
               /\ calls[j].url = urls[j - 1]
               /\ calls[j].offset = (j - 2) * MIN_PART_SIZE
               /\ calls[j].len =
                     Min(MIN_PART_SIZE, file_size - calls[j].offset)
         /\ j = total_parts + 2 => calls[j].op = "complete"

C9_Witness ==
    /\ pc = "Done"
    /\ total_parts = 3
    /\ Len(calls) = 5

\* C10: every etag in the payload sent to the completion endpoint is a
\* non-empty string.
C10_TokensNonEmpty ==
    \A j \in DOMAIN calls :
        calls[j].op = "complete" =>
            \A k \in DOMAIN calls[j].payload.parts :
                calls[j].payload.parts[k].etag # <<>>
====
